---- MODULE Spec2Model ----
(***************************************************************************)
(* A model of tracing-configurable: the FieldsVisitor collector            *)
(* (src/src/fields.rs), the Pattern parser and renderer                    *)
(* (src/src/pattern.rs) and the layer hooks (src/src/lib.rs).              *)
(*                                                                         *)
(* Text is modelled as a sequence of one-character strings, so that        *)
(* lengths, padding and concatenation are those of the rendered text.      *)
(***************************************************************************)
EXTENDS Integers, Sequences, FiniteSets, TLC

VARIABLES
    visitor,    \* the FieldsVisitor that the record_* calls are made on
    recorded,   \* history: the record_* calls made on visitor, in order
    template,   \* the items argable_parser::parse returned for a template
    parsed,     \* the Result of Pattern::try_parse (None before the call)
    appenders,  \* the patterns of the configuration's appenders (indices of Patterns)
    spans,      \* the registry: each span's state and the FieldsVisitor of its extensions
    stack,      \* per thread, the spans it has entered, innermost last
    BUF,        \* per thread, the thread_local BUF of render
    borrowed,   \* per thread, whether BUF's RefCell is mutably borrowed
    pc,         \* per thread, "idle" or "render" (inside a render call)
    call,       \* per thread, the pattern, the event and the next item of its render call
    inner,      \* per thread, the local `inner` of the last loop iteration
    outcome,    \* per thread, how its last render call ended, and what it returned
    calls,      \* per thread, the number of render calls it made
    entry       \* history: per thread, BUF when its render call began

vars == <<visitor, recorded, template, parsed, appenders, spans, stack,
          BUF, borrowed, pc, call, inner, outcome, calls, entry>>

renderVars == <<BUF, borrowed, pc, call, inner, outcome, calls, entry>>

contextVars == <<appenders, spans, stack>>

visitVars == <<visitor, recorded>>

parseVars == <<template, parsed>>

\* ------------------------------------------------------------------ bounds

\* Number of record_* calls made on the visitor under test.
MaxRecords == 3

\* Number of items of a parsed template.
MaxItems == 2

\* Number of render calls a thread makes.
MaxCalls == 2

\* ------------------------------------------------------------------- text

None == [some |-> FALSE, v |-> <<>>]

Some(x) == [some |-> TRUE, v |-> x]

Spaces(n) == [i \in 1..n |-> " "]

DigitChars == <<"0", "1", "2", "3", "4", "5", "6", "7", "8", "9">>

RECURSIVE NatToString(_)
\* Display of an unsigned integer: its decimal digits.
NatToString(n) ==
    IF n < 10 THEN <<DigitChars[n + 1]>>
    ELSE NatToString(n \div 10) \o <<DigitChars[(n % 10) + 1]>>

\* Display of a signed integer.
IntToString(n) == IF n < 0 THEN <<"-">> \o NatToString(-n) ELSE NatToString(n)

\* Display of an f64; the values drawn are multiples of 0.1, given in tenths
\* (15 is 1.5). Rust prints a whole f64 without a fraction (1.0 is "1").
F64ToString(tenths) ==
    LET a == IF tenths < 0 THEN -tenths ELSE tenths
        sign == IF tenths < 0 THEN <<"-">> ELSE <<>>
    IN  sign \o NatToString(a \div 10)
             \o (IF a % 10 = 0 THEN <<>> ELSE <<".", DigitChars[(a % 10) + 1]>>)

BoolToString(b) == IF b THEN <<"t", "r", "u", "e">> ELSE <<"f", "a", "l", "s", "e">>

\* The characters of a field name (Field::name() written with "{}").
NameChars(name) ==
    CASE name = "message" -> <<"m", "e", "s", "s", "a", "g", "e">>
      [] name = "x" -> <<"x">>
      [] name = "y" -> <<"y">>
      [] name = "arg" -> <<"a", "r", "g">>
      [] name = "test" -> <<"t", "e", "s", "t">>

\* The backtick character (U+0060), which a TLA+ string literal cannot hold.
Backtick == "BACKTICK"

RECURSIVE Join(_, _)
\* [String]::join(sep)
Join(parts, sep) ==
    IF Len(parts) = 0 THEN <<>>
    ELSE IF Len(parts) = 1 THEN parts[1]
    ELSE parts[1] \o sep \o Join(Tail(parts), sep)

\* ------------------------------------------------------------ EventValue

\* enum EventValue: kind is the variant; n carries a numeric or boolean
\* payload (F64 in tenths, Bool as 0/1), s the payload of the String variant.
EventValue(kind, n, s) == [kind |-> kind, n |-> n, s |-> s]

\* impl Display for EventValue
Display(ev) ==
    CASE ev.kind = "F64" -> F64ToString(ev.n)
      [] ev.kind \in {"I64", "I128"} -> IntToString(ev.n)
      [] ev.kind \in {"U64", "U128"} -> NatToString(ev.n)
      [] ev.kind = "Bool" -> BoolToString(ev.n = 1)
      [] ev.kind = "String" -> ev.s

\* ---------------------------------------------------------- FieldsVisitor

\* FieldsVisitor::default(). `values` is the HashMap; `order` is the order
\* in which the HashMap's iterator yields its keys.
DefaultVisitor == [message |-> None, values |-> [k \in {} |-> <<>>], order |-> <<>>]

\* FieldsVisitor::message
message(fv) == IF fv.message.some THEN fv.message.v ELSE <<>>

\* FieldsVisitor::has_values
has_values(fv) == DOMAIN fv.values # {}

\* The closure of format_values for one value: String in backticks.
FormatValue(ev) ==
    IF ev.kind = "String" THEN <<Backtick>> \o ev.s \o <<Backtick>> ELSE Display(ev)

\* The filter_map closure of format_values for one (key, values) entry.
FormatEntry(key, vals) ==
    IF Len(vals) > 1
    THEN Some(NameChars(key) \o <<"=", "[">>
              \o Join([i \in 1..Len(vals) |-> FormatValue(vals[i])], <<",">>)
              \o <<"]">>)
    ELSE IF Len(vals) > 0
    THEN Some(NameChars(key) \o <<"=">> \o FormatValue(vals[1]))
    ELSE None

\* FieldsVisitor::format_values: the entries in the map's iteration order.
format_values(fv) ==
    LET entries == [i \in 1..Len(fv.order) |->
                        FormatEntry(fv.order[i], fv.values[fv.order[i]])]
        kept == SelectSeq(entries, LAMBDA e : e.some)
    IN  Join([i \in 1..Len(kept) |-> kept[i].v], <<",">>)

\* seq with k inserted after its first pos elements.
InsertAt(seq, pos, k) == SubSeq(seq, 1, pos) \o <<k>> \o SubSeq(seq, pos + 1, Len(seq))

\* A faulty variant of Push: a repeated key overwrites its earlier values.
PushOverwrite(fv, name, ev, pos) ==
    IF name \in DOMAIN fv.values
    THEN [fv EXCEPT !.values = [fv.values EXCEPT ![name] = <<ev>>]]
    ELSE [fv EXCEPT !.values = [k \in DOMAIN fv.values \cup {name} |->
                                    IF k = name THEN <<ev>> ELSE fv.values[k]],
                    !.order = InsertAt(fv.order, pos, name)]

\* self.values.entry(name).or_default().push(ev). A new key lands at a place
\* of the iteration order that the hasher decides: pos, any place.
Push(fv, name, ev, pos) ==
    IF name \in DOMAIN fv.values
    THEN [fv EXCEPT !.values = [fv.values EXCEPT ![name] = Append(@, ev)]]
    ELSE [fv EXCEPT !.values = [k \in DOMAIN fv.values \cup {name} |->
                                    IF k = name THEN <<ev>> ELSE fv.values[k]],
                    !.order = InsertAt(fv.order, pos, name)]

\* The body shared by every record_* method: text is the value's textual
\* form, ev the EventValue pushed when the field is not taken as the message.
Record(fv, name, text, ev, pos) ==
    IF name = "message" /\ ~fv.message.some
    THEN [fv EXCEPT !.message = Some(text)]
    ELSE Push(fv, name, ev, pos)

record_f64(fv, name, value, pos) ==
    Record(fv, name, F64ToString(value), EventValue("F64", value, <<>>), pos)

record_i64(fv, name, value, pos) ==
    Record(fv, name, IntToString(value), EventValue("I64", value, <<>>), pos)

record_u64(fv, name, value, pos) ==
    Record(fv, name, NatToString(value), EventValue("U64", value, <<>>), pos)

record_i128(fv, name, value, pos) ==
    Record(fv, name, IntToString(value), EventValue("I128", value, <<>>), pos)

record_u128(fv, name, value, pos) ==
    Record(fv, name, NatToString(value), EventValue("U128", value, <<>>), pos)

record_bool(fv, name, value, pos) ==
    Record(fv, name, BoolToString(value),
           EventValue("Bool", IF value THEN 1 ELSE 0, <<>>), pos)

record_str(fv, name, value, pos) ==
    Record(fv, name, value, EventValue("String", 0, value), pos)

\* record_debug: value is given by the text its Debug implementation writes.
record_debug(fv, name, value, pos) ==
    Record(fv, name, value, EventValue("String", 0, value), pos)

\* record_error: delegates to record_debug with the error's Debug text.
record_error(fv, name, value, pos) == record_debug(fv, name, value, pos)

\* One recording through the channel named ch (the dispatch a tracing
\* ValueSet makes when it visits a field).
RecordVia(fv, ch, name, value, pos) ==
    CASE ch = "f64" -> record_f64(fv, name, value.n, pos)
      [] ch = "i64" -> record_i64(fv, name, value.n, pos)
      [] ch = "u64" -> record_u64(fv, name, value.n, pos)
      [] ch = "i128" -> record_i128(fv, name, value.n, pos)
      [] ch = "u128" -> record_u128(fv, name, value.n, pos)
      [] ch = "bool" -> record_bool(fv, name, value.n = 1, pos)
      [] ch = "str" -> record_str(fv, name, value.s, pos)
      [] ch = "debug" -> record_debug(fv, name, value.s, pos)
      [] ch = "error" -> record_error(fv, name, value.s, pos)

\* ------------------------------------------------------- Placeholder model

\* enum PlaceholderValue; n is the Integer, the Float (in tenths) or the
\* Boolean (0/1) payload, s the String payload.
PlaceholderValue(kind, n, s) == [kind |-> kind, n |-> n, s |-> s]

PString(s) == PlaceholderValue("String", 0, s)

PInteger(n) == PlaceholderValue("Integer", n, <<>>)

PFloat(n) == PlaceholderValue("Float", n, <<>>)

PBoolean(b) == PlaceholderValue("Boolean", IF b THEN 1 ELSE 0, <<>>)

\* impl From<Value> for PlaceholderValue: variant to the variant of the same
\* name. v is an argable_parser Value, [variant, n, s].
FromValue(v) ==
    CASE v.variant = "String" -> PString(v.s)
      [] v.variant = "Integer" -> PInteger(v.n)
      [] v.variant = "Float" -> PFloat(v.n)
      [] v.variant = "Boolean" -> PBoolean(v.n = 1)

NoProperties == [k \in {} |-> PInteger(0)]

\* Placeholder::new
Placeholder(ty, props, flags) == [ty |-> ty, properties |-> props, flags |-> flags]

\* The placeholder field of a PatternItem::Text, which has none.
NoPlaceholder == Placeholder("None", NoProperties, <<>>)

\* PatternItem::Text(v)
TextItem(v) == [kind |-> "Text", text |-> v, ph |-> NoPlaceholder]

\* PatternItem::Placeholder(p)
PlaceholderItem(p) == [kind |-> "Placeholder", text |-> <<>>, ph |-> p]

\* Pattern::new
Pattern(items) == [items |-> items]

\* Placeholder::property
property(ph, name) ==
    IF name \in DOMAIN ph.properties
    THEN [some |-> TRUE, v |-> ph.properties[name]]
    ELSE [some |-> FALSE, v |-> PInteger(0)]

\* Placeholder::str
str(ph, name) ==
    LET i == property(ph, name)
    IN  IF i.some /\ i.v.kind = "String" THEN Some(i.v.s) ELSE None

NoInt == [some |-> FALSE, v |-> 0]

\* Placeholder::int
int(ph, name) ==
    LET i == property(ph, name)
    IN  IF i.some /\ i.v.kind = "Integer" THEN [some |-> TRUE, v |-> i.v.n] ELSE NoInt

\* Placeholder::flag
flag(ph, name) == \E i \in 1..Len(ph.flags) : ph.flags[i] = name

\* enum PlaceholderType
PlaceholderTypes ==
    {"Text", "Message", "Span", "Target", "Level", "File", "Line", "Fields", "DateTime"}

\* The lower-case spelling from_str matches for a PlaceholderType.
TypeSpelling(ty) ==
    CASE ty = "Text" -> <<"t", "e", "x", "t">>
      [] ty = "Message" -> <<"m", "e", "s", "s", "a", "g", "e">>
      [] ty = "Span" -> <<"s", "p", "a", "n">>
      [] ty = "Target" -> <<"t", "a", "r", "g", "e", "t">>
      [] ty = "Level" -> <<"l", "e", "v", "e", "l">>
      [] ty = "File" -> <<"f", "i", "l", "e">>
      [] ty = "Line" -> <<"l", "i", "n", "e">>
      [] ty = "Fields" -> <<"f", "i", "e", "l", "d", "s">>
      [] ty = "DateTime" -> <<"d", "a", "t", "e", "t", "i", "m", "e">>

UpperLetters ==
    <<"A", "B", "C", "D", "E", "F", "G", "H", "I", "J", "K", "L", "M",
      "N", "O", "P", "Q", "R", "S", "T", "U", "V", "W", "X", "Y", "Z">>

LowerLetters ==
    <<"a", "b", "c", "d", "e", "f", "g", "h", "i", "j", "k", "l", "m",
      "n", "o", "p", "q", "r", "s", "t", "u", "v", "w", "x", "y", "z">>

\* char::to_lowercase on the characters the model draws.
CharToLower(c) ==
    IF \E i \in 1..26 : UpperLetters[i] = c
    THEN LowerLetters[CHOOSE i \in 1..26 : UpperLetters[i] = c]
    ELSE c

\* str::to_lowercase
to_lowercase(v) == [i \in 1..Len(v) |-> CharToLower(v[i])]

NoType == [some |-> FALSE, v |-> "None"]

\* A faulty variant of from_str: the name is matched as it is written.
from_str_case_sensitive(v) ==
    IF \E ty \in PlaceholderTypes : TypeSpelling(ty) = v
    THEN Some(CHOOSE ty \in PlaceholderTypes : TypeSpelling(ty) = v)
    ELSE NoType

\* PlaceholderType::from_str
from_str(v) ==
    LET lower == to_lowercase(v)
    IN  IF \E ty \in PlaceholderTypes : TypeSpelling(ty) = lower
        THEN Some(CHOOSE ty \in PlaceholderTypes : TypeSpelling(ty) = lower)
        ELSE NoType

\* ----------------------------------------------------- Pattern::try_parse

\* argable_parser's items. A Value is [variant, n, s]; an Arg is a Flag(name)
\* or a Value(name, value); a placeholder has a name and optional args.
Value(variant, n, s) == [variant |-> variant, n |-> n, s |-> s]

ArgFlag(name) == [kind |-> "Flag", name |-> name, value |-> Value("Boolean", 0, <<>>)]

ArgValue(name, value) == [kind |-> "Value", name |-> name, value |-> value]

ParsedText(v) == [kind |-> "Text", text |-> v, name |-> <<>>, args |-> None]

ParsedPlaceholder(name, args) == [kind |-> "Placeholder", text |-> <<>>, name |-> name, args |-> args]

RECURSIVE CollectProperties(_, _)
\* The loop over args for the properties: HashMap::insert, a later
\* value of a name replacing the earlier one.
CollectProperties(args, props) ==
    IF args = <<>> THEN props
    ELSE LET arg == Head(args)
             next == IF arg.kind = "Value"
                     THEN [k \in DOMAIN props \cup {arg.name} |->
                               IF k = arg.name THEN FromValue(arg.value) ELSE props[k]]
                     ELSE props
         IN  CollectProperties(Tail(args), next)

\* The loop over args for the flags: Vec::push of every Arg::Flag.
CollectFlags(args) ==
    LET flagged == SelectSeq(args, LAMBDA a : a.kind = "Flag")
    IN  [i \in 1..Len(flagged) |-> flagged[i].name]

\* The filter_map closure of try_parse: None drops the item.
ConvertItem(item) ==
    IF item.kind = "Text" THEN Some(TextItem(item.text))
    ELSE LET ty == from_str(item.name)
             args == IF item.args.some THEN item.args.v ELSE <<>>
         IN  IF ~ty.some THEN [some |-> FALSE, v |-> TextItem(<<>>)]
             ELSE Some(PlaceholderItem(
                      Placeholder(ty.v, CollectProperties(args, NoProperties),
                                  CollectFlags(args))))

\* Result::Ok
Ok(x) == [ok |-> TRUE, v |-> x]

\* Pattern::try_parse after argable_parser::parse succeeded with `items`.
try_parse(items) ==
    LET converted == [i \in 1..Len(items) |-> ConvertItem(items[i])]
        kept == SelectSeq(converted, LAMBDA c : c.some)
    IN  Ok(Pattern([i \in 1..Len(kept) |-> kept[i].v]))

\* The items the templates of the model are made of.
TemplateItems ==
    { ParsedText(<<"a", " ">>),
      ParsedPlaceholder(<<"t", "e", "x", "t">>,
          Some(<<ArgValue("value", Value("String", 0, <<"v">>)),
                 ArgValue("value", Value("String", 0, <<"w">>))>>)),
      ParsedPlaceholder(<<"M", "e", "s", "s", "a", "g", "e">>, None),
      ParsedPlaceholder(<<"s", "p", "a", "n">>,
          Some(<<ArgValue("prefix", Value("String", 0, <<":", ":">>)),
                 ArgFlag("args"),
                 ArgValue("args_prefix", Value("String", 0, <<"{">>)),
                 ArgValue("args_suffix", Value("String", 0, <<"}">>))>>)),
      ParsedPlaceholder(<<"t", "a", "r", "g", "e", "t">>, None),
      ParsedPlaceholder(<<"L", "E", "V", "E", "L">>,
          Some(<<ArgValue("width", Value("Integer", 5, <<>>)),
                 ArgValue("alignment", Value("String", 0, <<">">>))>>)),
      ParsedPlaceholder(<<"f", "i", "l", "e">>, Some(<<>>)),
      ParsedPlaceholder(<<"l", "i", "n", "e">>,
          Some(<<ArgValue("pad", Value("Float", 15, <<>>)),
                 ArgValue("on", Value("Boolean", 1, <<>>))>>)),
      ParsedPlaceholder(<<"f", "i", "e", "l", "d", "s">>,
          Some(<<ArgFlag("a"), ArgFlag("b"), ArgFlag("a")>>)),
      ParsedPlaceholder(<<"d", "a", "t", "e", "T", "i", "m", "e">>, None),
      ParsedPlaceholder(<<"b", "o", "g", "u", "s">>, None),
      ParsedPlaceholder(<<"l", "e", "v", "e", "l", "s">>,
          Some(<<ArgValue("width", Value("Integer", 5, <<>>))>>)) }

\* The parsed templates of at most MaxItems items.
Templates == UNION {[1..n -> TemplateItems] : n \in 0..MaxItems}

NoPattern == [some |-> FALSE, v |-> Ok(Pattern(<<>>))]

\* ------------------------------------------------- spans, events, patterns

\* The threads of the host application that emit events.
Threads == {"t1", "t2"}

\* A faulty variant of Slot: BUF is one static, which every thread reaches.
SlotShared(t) == "t1"

\* thread_local! BUF: the slot of BUF that thread t reaches, its own.
Slot(t) == t

\* The span ids the host's registry hands out.
SpanIds == {"s1", "s2"}

\* Metadata::name() of a span.
SpanName(s) ==
    CASE s = "s1" -> <<"t", "e", "s", "t">>
      [] s = "s2" -> <<"j", "o", "b">>

\* One entry of the history of calls; also one field of an event or of a
\* span's attributes: the channel it is recorded through, its name, value.
Call(ch, name, n, s) == [ch |-> ch, name |-> name, n |-> n, s |-> s]

\* The attributes a span is created with: s1 as in the crate's test
\* (arg = 1, arg = "test") or with none, s2 with two field names.
AttrsOf(s) ==
    CASE s = "s1" -> { <<>>,
                       <<Call("i64", "arg", 1, <<>>),
                         Call("str", "arg", 0, <<"t", "e", "s", "t">>)>> }
      [] s = "s2" -> { <<Call("i64", "x", 1, <<>>), Call("bool", "y", 1, <<>>)>> }

NoVisitor == [some |-> FALSE, v |-> DefaultVisitor]

\* A span of the registry: state is "none" before it is created, "open"
\* after, and "closed" once the registry has dropped it; ext is the
\* FieldsVisitor of its extensions, if one is stored; attrs are the
\* attributes it was created with and exited says whether on_exit was
\* called for it.
NoSpan == [state |-> "none", ext |-> NoVisitor, attrs |-> <<>>, exited |-> FALSE]

RECURSIVE Visitors(_)
\* attrs.record(&mut fields) / event.record(&mut fields) on a default
\* visitor: the visitors that the recordings can leave, one for every
\* iteration order the HashMap can end with.
Visitors(fields) ==
    IF fields = <<>> THEN {DefaultVisitor}
    ELSE LET f == fields[Len(fields)]
         IN  UNION { { RecordVia(fv, f.ch, f.name, f, pos) : pos \in 0..Len(fv.order) } :
                     fv \in Visitors(SubSeq(fields, 1, Len(fields) - 1)) }

\* Event::parent(): the explicitly declared parent span, if any. An event
\* is contextual ("Current"), an explicit root ("Root") or has an explicit
\* parent ("Explicit", id).
Parent(kind, id) == [kind |-> kind, id |-> id]

\* The events the threads emit.
Events ==
    << \* warn!(x = 1, y = true, "hi") at m.rs:7, contextual
       [ level |-> <<"W", "A", "R", "N">>, target |-> <<"a", "p", "p">>,
         file |-> Some(<<"m", ".", "r", "s">>), line |-> [some |-> TRUE, v |-> 7],
         parent |-> Parent("Current", "s1"),
         fields |-> <<Call("debug", "message", 0, <<"h", "i">>),
                      Call("i64", "x", 1, <<>>), Call("bool", "y", 1, <<>>)>>,
         reentrant |-> FALSE ],
       \* an event without fields, file or line, with the explicit parent s1
       [ level |-> <<"E", "R", "R", "O", "R">>, target |-> <<"d", "b">>,
         file |-> None, line |-> NoInt,
         parent |-> Parent("Explicit", "s1"),
         fields |-> <<>>,
         reentrant |-> FALSE ],
       \* info!(parent: None, x = 1, x = "t"), an explicit root
       [ level |-> <<"I", "N", "F", "O">>, target |-> <<"a", "p", "p">>,
         file |-> None, line |-> NoInt,
         parent |-> Parent("Root", "s1"),
         fields |-> <<Call("i64", "x", 1, <<>>), Call("str", "x", 0, <<"t">>)>>,
         reentrant |-> FALSE ],
       \* info!(x = ?v), where v's Debug implementation emits an event itself
       [ level |-> <<"I", "N", "F", "O">>, target |-> <<"d", "b">>,
         file |-> None, line |-> NoInt,
         parent |-> Parent("Current", "s1"),
         fields |-> <<Call("debug", "x", 0, <<"v">>)>>,
         reentrant |-> TRUE ] >>

\* A PatternItem::Placeholder of type ty.
P(ty, props, flags) == PlaceholderItem(Placeholder(ty, props, flags))

\* The patterns the appenders of the configuration hold.
Patterns ==
    << Pattern(<< TextItem(<<"a">>),
                  P("Level", ("width" :> PInteger(5)) @@ ("alignment" :> PString(<<">">>)), <<>>),
                  P("Message", ("prefix" :> PString(<<"[">>)) @@ ("suffix" :> PString(<<"]">>)), <<>>) >>),
       Pattern(<< P("Level", ("width" :> PInteger(5)) @@ ("alignment" :> PString(<<"<">>)), <<>>),
                  P("Fields", ("prefix" :> PString(<<"{">>)) @@ ("suffix" :> PString(<<"}">>)), <<>>) >>),
       Pattern(<< P("Level", ("width" :> PInteger(5)), <<>>),
                  P("Level", ("width" :> PInteger(2)) @@ ("alignment" :> PString(<<">">>)), <<>>),
                  P("Level", ("width" :> PString(<<"5">>)) @@ ("alignment" :> PString(<<"<">>)), <<>>) >>),
       Pattern(<< P("Level", ("width" :> PInteger(5)) @@ ("alignment" :> PString(<<"x">>)), <<>>),
                  P("Level", ("width" :> PInteger(5)) @@ ("alignment" :> PInteger(1)), <<>>),
                  P("Level", ("width" :> PInteger(-1)), <<>>) >>),
       Pattern(<< TextItem(<<"a">>),
                  P("Level", ("prefix" :> PString(<<"(">>)) @@ ("width" :> PInteger(-1))
                             @@ ("alignment" :> PString(<<"<">>)) @@ ("suffix" :> PString(<<")">>)), <<>>) >>),
       Pattern(<< TextItem(<<"a">>),
                  P("DateTime", ("fmt" :> PString(<<"%", "Q">>)), <<>>) >>),
       Pattern(<< P("DateTime", NoProperties, <<>>),
                  P("DateTime", ("fmt" :> PString(<<"%", "H", "h">>)) @@ ("prefix" :> PString(<<" ">>)), <<>>) >>),
       Pattern(<< P("Span", ("prefix" :> PString(<<":", ":">>)) @@ ("args_prefix" :> PString(<<"{">>))
                            @@ ("args_suffix" :> PString(<<"}">>)), <<"args">>) >>),
       Pattern(<< P("Span", NoProperties, <<"args">>),
                  TextItem(<<" ">>),
                  P("Span", ("args_prefix" :> PString(<<"{">>)), <<>>) >>),
       Pattern(<< P("Text", ("value" :> PString(<<"v">>)) @@ ("prefix" :> PString(<<"<">>)), <<>>),
                  P("Text", ("prefix" :> PString(<<"<">>)) @@ ("value" :> PInteger(1)), <<>>),
                  P("File", ("prefix" :> PString(<<"@">>)), <<>>) >>),
       Pattern(<< P("Line", ("prefix" :> PString(<<":">>)) @@ ("suffix" :> PString(<<";">>)), <<>>),
                  P("Target", NoProperties, <<>>) >>) >>

\* A point of local time, as chrono's Local::now() returns it.
Clock ==
    { [Y |-> 2024, m |-> 1, d |-> 2, H |-> 3, M |-> 4, S |-> 5, us |-> 6],
      [Y |-> 2025, m |-> 11, d |-> 12, H |-> 13, M |-> 14, S |-> 15, us |-> 123456] }

\* ------------------------------------------------------- chrono formatting

\* n in decimal, zero-padded to w digits.
ZeroPadded(n, w) ==
    LET d == NatToString(n)
    IN  [i \in 1..(IF w > Len(d) THEN w - Len(d) ELSE 0) |-> "0"] \o d

\* The strftime specifiers of one letter that the model's formats use.
Specifiers == {"Y", "m", "d", "H", "M", "S"}

\* One specifier applied to a time.
FormatSpecifier(c, now) ==
    CASE c = "Y" -> ZeroPadded(now.Y, 4)
      [] c = "m" -> ZeroPadded(now.m, 2)
      [] c = "d" -> ZeroPadded(now.d, 2)
      [] c = "H" -> ZeroPadded(now.H, 2)
      [] c = "M" -> ZeroPadded(now.M, 2)
      [] c = "S" -> ZeroPadded(now.S, 2)

RECURSIVE FormatTime(_, _)
\* now.format(fmt).to_string(): a literal character is copied, %Y %m %d %H
\* %M %S and %.6f are replaced; any other specifier is an error item, on
\* which the Display implementation fails and to_string panics (ok = FALSE).
FormatTime(now, fmt) ==
    IF fmt = <<>> THEN [ok |-> TRUE, text |-> <<>>]
    ELSE IF fmt[1] # "%"
    THEN LET rest == FormatTime(now, Tail(fmt))
         IN  [ok |-> rest.ok, text |-> <<fmt[1]>> \o rest.text]
    ELSE IF Len(fmt) >= 4 /\ SubSeq(fmt, 2, 4) = <<".", "6", "f">>
    THEN LET rest == FormatTime(now, SubSeq(fmt, 5, Len(fmt)))
         IN  [ok |-> rest.ok, text |-> <<".">> \o ZeroPadded(now.us, 6) \o rest.text]
    ELSE IF Len(fmt) >= 2 /\ fmt[2] \in Specifiers
    THEN LET rest == FormatTime(now, SubSeq(fmt, 3, Len(fmt)))
         IN  [ok |-> rest.ok, text |-> FormatSpecifier(fmt[2], now) \o rest.text]
    ELSE [ok |-> FALSE, text |-> <<>>]

\* "%Y-%m-%d %H:%M:%S%.6f"
DefaultFmt ==
    <<"%", "Y", "-", "%", "m", "-", "%", "d", " ",
      "%", "H", ":", "%", "M", ":", "%", "S", "%", ".", "6", "f">>

\* ----------------------------------------------------------- Pattern::render

\* `i as usize` for an i32 i on a 64-bit target: the value itself when
\* i >= 0, and 2^64 + i when i < 0 (high is TRUE, low is i), a width that no
\* string can reach.
AsUsize(i) == [high |-> i < 0, low |-> i]

\* write!(buf, "{:<width$}", value) and write!(buf, "{:>width$}", value):
\* value padded with spaces to width characters, at its right when left is
\* TRUE. A width of 2^64 + i cannot be written: the formatter panics
\* (std limits a width to u16::MAX) or fills memory until the allocator
\* aborts, as the toolchain has it (ok = FALSE).
WritePadded(value, width, left) ==
    IF width.high THEN [ok |-> FALSE, text |-> <<>>]
    ELSE LET fill == Spaces(IF width.low > Len(value) THEN width.low - Len(value) ELSE 0)
         IN  [ok |-> TRUE, text |-> IF left THEN value \o fill ELSE fill \o value]

\* The lines of render that write a produced value: prefix, the value with
\* width and alignment applied, suffix. ok = FALSE when the padded write
\* does not return; text is what reached the buffer.
Emit(ph, value) ==
    LET prefix == IF str(ph, "prefix").some THEN str(ph, "prefix").v ELSE <<>>
        suffix == IF str(ph, "suffix").some THEN str(ph, "suffix").v ELSE <<>>
        w == int(ph, "width")
        width == AsUsize(w.v)
        alignment == str(ph, "alignment")
        aligned == alignment.some /\ alignment.v \in {<<"<">>, <<">">>}
        is_left_align == alignment.v = <<"<">>
        written == IF w.some /\ aligned
                   THEN WritePadded(value, width, is_left_align)
                   ELSE [ok |-> TRUE, text |-> value]
    IN  IF written.ok
        THEN [ok |-> TRUE, text |-> prefix \o written.text \o suffix]
        ELSE [ok |-> FALSE, text |-> prefix]

\* The Span arm for a span that resolved: name is the span's name, ext the
\* FieldsVisitor of its extensions (extensions.get::<FieldsVisitor>()).
SpanValue(ph, name, ext) ==
    LET fields == IF ext.some /\ flag(ph, "args") THEN Some(format_values(ext.v)) ELSE None
    IN  IF fields.some /\ flag(ph, "args")
        THEN name \o (IF str(ph, "args_prefix").some THEN str(ph, "args_prefix").v ELSE <<>>)
                  \o fields.v
                  \o (IF str(ph, "args_suffix").some THEN str(ph, "args_suffix").v ELSE <<>>)
        ELSE name

\* ------------------------------------------------------------ idle states

\* No record_* call was made on the visitor under test.
VisitIdle ==
    /\ visitor = DefaultVisitor
    /\ recorded = <<>>

ParseIdle ==
    /\ template = <<>>
    /\ parsed = NoPattern

\* --------------------------------------------------- render, step by step

NoSpanId == [some |-> FALSE, v |-> "none"]

\* context.lookup_current(): the innermost span the thread has entered.
lookup_current(t) ==
    IF stack[t] # <<>> THEN [some |-> TRUE, v |-> stack[t][Len(stack[t])]] ELSE NoSpanId

\* The Lazy parent_span of render:
\* event.parent().and_then(|i| context.span(i)).or_else(|| context.lookup_current())
parent_span(t, e) ==
    IF e.parent.kind = "Explicit" /\ spans[e.parent.id].state = "open"
    THEN [some |-> TRUE, v |-> e.parent.id]
    ELSE lookup_current(t)

\* BUF.with(|buf| buf.borrow_mut()) of a render call made while the thread
\* is inside event.record of an outer render call: held says whether the
\* RefCell is borrowed, as it is by the outer call, and borrow_mut panics.
NestedRender(held) == IF held THEN "panic" ELSE "ok"

\* The Lazy fields of render, forced: the visitors event.record can leave. A
\* value whose Debug implementation emits an event makes a nested render
\* call on the thread; when that call panics, no visitor is left.
ForcedFields(held, e) ==
    IF e.reentrant /\ NestedRender(held) = "panic" THEN {}
    ELSE Visitors(e.fields)

\* The match on placeholder.ty: the values `inner` can take, as
\* [ok, inner]; ok = FALSE when the arm panics.
Inners(t, held, ph, e) ==
    CASE ph.ty = "Text" -> {[ok |-> TRUE, inner |-> str(ph, "value")]}
      [] ph.ty = "Target" -> {[ok |-> TRUE, inner |-> Some(e.target)]}
      [] ph.ty = "Level" -> {[ok |-> TRUE, inner |-> Some(e.level)]}
      [] ph.ty = "File" -> {[ok |-> TRUE, inner |-> e.file]}
      [] ph.ty = "Line" ->
            {[ok |-> TRUE, inner |-> IF e.line.some THEN Some(NatToString(e.line.v)) ELSE None]}
      [] ph.ty = "Span" ->
            LET sp == parent_span(t, e)
            IN  {[ok |-> TRUE,
                  inner |-> IF sp.some
                            THEN Some(SpanValue(ph, SpanName(sp.v), spans[sp.v].ext))
                            ELSE None]}
      [] ph.ty = "Message" ->
            IF ForcedFields(held, e) = {} THEN {[ok |-> FALSE, inner |-> None]}
            ELSE {[ok |-> TRUE, inner |-> Some(message(fv))] : fv \in ForcedFields(held, e)}
      [] ph.ty = "Fields" ->
            IF ForcedFields(held, e) = {} THEN {[ok |-> FALSE, inner |-> None]}
            ELSE {[ok |-> TRUE,
                   inner |-> IF has_values(fv) THEN Some(format_values(fv)) ELSE None] :
                  fv \in ForcedFields(held, e)}
      [] ph.ty = "DateTime" ->
            {LET fmt == IF str(ph, "fmt").some THEN str(ph, "fmt").v ELSE DefaultFmt
                 now == FormatTime(time, fmt)
             IN  [ok |-> now.ok, inner |-> IF now.ok THEN Some(now.text) ELSE None] :
             time \in Clock}

\* How a call of render that does not return ends: by a panic that unwinds
\* to the host, or with the process aborted.
Failures == {"panic", "abort"}

\* One iteration of the loop over the items: the results it can have, as
\* [status, inner, text]; text is what the iteration appended to the buffer.
ItemResults(t, held, item, e) ==
    IF item.kind = "Text"
    THEN {[status |-> "ok", inner |-> None, text |-> item.text]}
    ELSE UNION {
           IF ~r.ok THEN {[status |-> "panic", inner |-> None, text |-> <<>>]}
           ELSE IF ~r.inner.some THEN {[status |-> "ok", inner |-> None, text |-> <<>>]}
           ELSE LET w == Emit(item.ph, r.inner.v)
                IN  IF w.ok THEN {[status |-> "ok", inner |-> r.inner, text |-> w.text]}
                    ELSE {[status |-> f, inner |-> r.inner, text |-> w.text] : f \in Failures}
           : r \in Inners(t, held, item.ph, e) }

NoOutcome == [kind |-> "none", out |-> <<>>]

NoCall == [pattern |-> 0, event |-> 0, idx |-> 0]

\* The process runs: no render call aborted it.
Alive == \A t \in Threads : outcome[t].kind # "aborted"

\* The items of the pattern of thread t's call, and the event of the call.
ItemsOf(t) == Patterns[call[t].pattern].items

EventOf(t) == Events[call[t].event]

RenderIdle ==
    /\ BUF = [t \in Threads |-> <<>>]
    /\ borrowed = [t \in Threads |-> FALSE]
    /\ pc = [t \in Threads |-> "idle"]
    /\ call = [t \in Threads |-> NoCall]
    /\ inner = [t \in Threads |-> None]
    /\ outcome = [t \in Threads |-> NoOutcome]
    /\ calls = [t \in Threads |-> 0]
    /\ entry = [t \in Threads |-> <<>>]

NoContext ==
    /\ spans = [s \in SpanIds |-> NoSpan]
    /\ stack = [t \in Threads |-> <<>>]

\* render, entered (on_event calls it for each appender's pattern): the
\* thread-local BUF is borrowed mutably.
RenderBegin(t) ==
    \E p \in appenders, e \in 1..Len(Events) :
        /\ Alive
        /\ pc[t] = "idle"
        /\ calls[t] < MaxCalls
        /\ Events[e].parent.kind = "Explicit" => spans[Events[e].parent.id].state # "none"
        /\ ~borrowed[t]
        /\ borrowed' = [borrowed EXCEPT ![t] = TRUE]
        /\ pc' = [pc EXCEPT ![t] = "render"]
        /\ call' = [call EXCEPT ![t] = [pattern |-> p, event |-> e, idx |-> 1]]
        /\ inner' = [inner EXCEPT ![t] = None]
        /\ outcome' = [outcome EXCEPT ![t] = NoOutcome]
        /\ calls' = [calls EXCEPT ![t] = @ + 1]
        /\ entry' = [entry EXCEPT ![t] = BUF[Slot(t)]]
        /\ UNCHANGED <<BUF, appenders, spans, stack, visitVars, parseVars>>

\* One iteration of the loop over the items. A panic unwinds the call: the
\* RefMut is dropped, the buffer keeps what was written to it.
RenderItem(t) ==
    /\ Alive
    /\ pc[t] = "render"
    /\ call[t].idx <= Len(ItemsOf(t))
    /\ \E r \in ItemResults(t, borrowed[t], ItemsOf(t)[call[t].idx], EventOf(t)) :
        /\ BUF' = [BUF EXCEPT ![Slot(t)] = @ \o r.text]
        /\ inner' = [inner EXCEPT ![t] = r.inner]
        /\ call' = [call EXCEPT ![t].idx = @ + 1]
        /\ IF r.status = "ok"
           THEN UNCHANGED <<pc, borrowed, outcome>>
           ELSE /\ pc' = [pc EXCEPT ![t] = "idle"]
                /\ borrowed' = [borrowed EXCEPT ![t] = FALSE]
                /\ outcome' = [outcome EXCEPT ![t] =
                                  [kind |-> IF r.status = "panic" THEN "panicked" ELSE "aborted",
                                   out |-> <<>>]]
    /\ UNCHANGED <<calls, entry, appenders, spans, stack, visitVars, parseVars>>

\* The end of render: buf.to_string(), buf.clear(), Some(v).
RenderEnd(t) ==
    /\ Alive
    /\ pc[t] = "render"
    /\ call[t].idx > Len(ItemsOf(t))
    /\ outcome' = [outcome EXCEPT ![t] = [kind |-> "returned", out |-> BUF[Slot(t)]]]
    /\ BUF' = [BUF EXCEPT ![Slot(t)] = <<>>]
    /\ borrowed' = [borrowed EXCEPT ![t] = FALSE]
    /\ pc' = [pc EXCEPT ![t] = "idle"]
    /\ inner' = [inner EXCEPT ![t] = None]
    /\ UNCHANGED <<call, calls, entry, appenders, spans, stack, visitVars, parseVars>>

\* ------------------------------------------------------- the layer's hooks

\* ConfigurableLayer::on_new_span, called by the registry on thread t when
\* span s is created with attrs: a visitor of the attributes replaces the
\* FieldsVisitor of the span's extensions.
on_new_span(t, s) ==
    \E attrs \in AttrsOf(s) : \E fields \in Visitors(attrs) :
        /\ Alive
        /\ pc[t] = "idle"
        /\ spans[s].state = "none"
        /\ spans' = [spans EXCEPT ![s] = [state |-> "open", ext |-> Some(fields),
                                         attrs |-> attrs, exited |-> FALSE]]
        /\ UNCHANGED <<stack, appenders, renderVars, visitVars, parseVars>>

\* The registry enters span s on thread t (the layer has no on_enter hook).
Enter(t, s) ==
    /\ Alive
    /\ pc[t] = "idle"
    /\ spans[s].state = "open"
    /\ \A i \in 1..Len(stack[t]) : stack[t][i] # s
    /\ stack' = [stack EXCEPT ![t] = Append(@, s)]
    /\ UNCHANGED <<spans, appenders, renderVars, visitVars, parseVars>>

\* A faulty variant of on_exit: the FieldsVisitor stays in the extensions.
on_exit_keeps(t, s) ==
    /\ Alive
    /\ pc[t] = "idle"
    /\ stack[t] # <<>>
    /\ stack[t][Len(stack[t])] = s
    /\ stack' = [stack EXCEPT ![t] = SubSeq(@, 1, Len(@) - 1)]
    /\ spans' = [spans EXCEPT ![s].exited = TRUE]
    /\ UNCHANGED <<appenders, renderVars, visitVars, parseVars>>

\* ConfigurableLayer::on_exit, called by the registry when thread t leaves
\* its innermost span s: the FieldsVisitor is removed from the extensions.
on_exit(t, s) ==
    /\ Alive
    /\ pc[t] = "idle"
    /\ stack[t] # <<>>
    /\ stack[t][Len(stack[t])] = s
    /\ stack' = [stack EXCEPT ![t] = SubSeq(@, 1, Len(@) - 1)]
    /\ spans' = [spans EXCEPT ![s].ext = NoVisitor, ![s].exited = TRUE]
    /\ UNCHANGED <<appenders, renderVars, visitVars, parseVars>>

\* The registry closes span s, which no thread is inside, when its last
\* handle is dropped: context.span(id) finds no span from then on. An Id is
\* a plain value, which the host can still name as an event's parent.
try_close(t, s) ==
    /\ Alive
    /\ pc[t] = "idle"
    /\ spans[s].state = "open"
    /\ \A u \in Threads : \A i \in 1..Len(stack[u]) : stack[u][i] # s
    /\ spans' = [spans EXCEPT ![s].state = "closed", ![s].ext = NoVisitor]
    /\ UNCHANGED <<stack, appenders, renderVars, visitVars, parseVars>>

Init ==
    /\ appenders = 1..Len(Patterns)
    /\ NoContext
    /\ RenderIdle
    /\ VisitIdle
    /\ ParseIdle

Next ==
    \E t \in {"t1"} :
        \/ RenderBegin(t)
        \/ RenderItem(t)
        \/ RenderEnd(t)
        \/ \E s \in SpanIds : on_new_span(t, s)
        \/ \E s \in SpanIds : Enter(t, s)
        \/ \E s \in SpanIds : on_exit(t, s)
        \/ \E s \in SpanIds : try_close(t, s)

\* The layer at work on one thread: spans are created, entered and left, and
\* events are rendered with the appenders' patterns.
Spec == Init /\ [][Next]_vars

\* ---------------------------------------- threads sharing one Pattern

\* The span contexts the threads render in: no span, or one span, created
\* with its attributes and entered by every thread.
SharedContexts ==
    { [spans |-> [s \in SpanIds |-> NoSpan], stack |-> [t \in Threads |-> <<>>]] }
    \cup UNION { { [spans |-> [s \in SpanIds |->
                                 IF s = sp THEN [state |-> "open", ext |-> Some(c[2]),
                                                 attrs |-> c[1], exited |-> FALSE]
                                 ELSE NoSpan],
                    stack |-> [t \in Threads |-> <<sp>>]] :
                   c \in UNION {{<<a, fv>> : fv \in Visitors(a)} : a \in AttrsOf(sp)} } :
                 sp \in SpanIds }

SharedInit ==
    /\ \E p \in 1..Len(Patterns) : appenders = {p}
    /\ \E c \in SharedContexts : spans = c.spans /\ stack = c.stack
    /\ RenderIdle
    /\ VisitIdle
    /\ ParseIdle

SharedNext ==
    \E t \in Threads :
        \/ RenderBegin(t)
        \/ RenderItem(t)
        \/ RenderEnd(t)

\* Several threads render events with one shared Pattern, concurrently.
SpecShared == SharedInit /\ [][SharedNext]_vars

\* ---------------------------------------------------- try_parse, as a step

ParseInit ==
    /\ template \in Templates
    /\ parsed = NoPattern
    /\ VisitIdle
    /\ appenders = {}
    /\ NoContext
    /\ RenderIdle

TryParse ==
    /\ ~parsed.some
    /\ parsed' = Some(try_parse(template))
    /\ UNCHANGED <<template, visitVars, contextVars, renderVars>>

ParseNext == TryParse

\* Pattern::try_parse on every syntactically valid template.
SpecParse == ParseInit /\ [][ParseNext]_vars

\* ------------------------------------------- the Visit calls on one visitor

FieldNames == {"message", "x", "y"}

F64Values == {15}
I64Values == {1, 2}
U64Values == {3}
I128Values == {-4}
U128Values == {5}
BoolValues == {TRUE}
StrValues == {<<"t">>}
DebugValues == {<<"d">>}
ErrorValues == {<<"e">>}

\* The places of the iteration order a new key can take.
Places(fv) == 0..Len(fv.order)

VisitInit ==
    /\ VisitIdle
    /\ ParseIdle
    /\ appenders = {}
    /\ NoContext
    /\ RenderIdle

Visit_f64 ==
    \E name \in FieldNames, value \in F64Values, pos \in Places(visitor) :
        /\ Len(recorded) < MaxRecords
        /\ visitor' = record_f64(visitor, name, value, pos)
        /\ recorded' = Append(recorded, Call("f64", name, value, <<>>))
        /\ UNCHANGED <<parseVars, contextVars, renderVars>>

Visit_i64 ==
    \E name \in FieldNames, value \in I64Values, pos \in Places(visitor) :
        /\ Len(recorded) < MaxRecords
        /\ visitor' = record_i64(visitor, name, value, pos)
        /\ recorded' = Append(recorded, Call("i64", name, value, <<>>))
        /\ UNCHANGED <<parseVars, contextVars, renderVars>>

Visit_u64 ==
    \E name \in FieldNames, value \in U64Values, pos \in Places(visitor) :
        /\ Len(recorded) < MaxRecords
        /\ visitor' = record_u64(visitor, name, value, pos)
        /\ recorded' = Append(recorded, Call("u64", name, value, <<>>))
        /\ UNCHANGED <<parseVars, contextVars, renderVars>>

Visit_i128 ==
    \E name \in FieldNames, value \in I128Values, pos \in Places(visitor) :
        /\ Len(recorded) < MaxRecords
        /\ visitor' = record_i128(visitor, name, value, pos)
        /\ recorded' = Append(recorded, Call("i128", name, value, <<>>))
        /\ UNCHANGED <<parseVars, contextVars, renderVars>>

Visit_u128 ==
    \E name \in FieldNames, value \in U128Values, pos \in Places(visitor) :
        /\ Len(recorded) < MaxRecords
        /\ visitor' = record_u128(visitor, name, value, pos)
        /\ recorded' = Append(recorded, Call("u128", name, value, <<>>))
        /\ UNCHANGED <<parseVars, contextVars, renderVars>>

Visit_bool ==
    \E name \in FieldNames, value \in BoolValues, pos \in Places(visitor) :
        /\ Len(recorded) < MaxRecords
        /\ visitor' = record_bool(visitor, name, value, pos)
        /\ recorded' = Append(recorded, Call("bool", name, IF value THEN 1 ELSE 0, <<>>))
        /\ UNCHANGED <<parseVars, contextVars, renderVars>>

Visit_str ==
    \E name \in FieldNames, value \in StrValues, pos \in Places(visitor) :
        /\ Len(recorded) < MaxRecords
        /\ visitor' = record_str(visitor, name, value, pos)
        /\ recorded' = Append(recorded, Call("str", name, 0, value))
        /\ UNCHANGED <<parseVars, contextVars, renderVars>>

Visit_error ==
    \E name \in FieldNames, value \in ErrorValues, pos \in Places(visitor) :
        /\ Len(recorded) < MaxRecords
        /\ visitor' = record_error(visitor, name, value, pos)
        /\ recorded' = Append(recorded, Call("error", name, 0, value))
        /\ UNCHANGED <<parseVars, contextVars, renderVars>>

Visit_debug ==
    \E name \in FieldNames, value \in DebugValues, pos \in Places(visitor) :
        /\ Len(recorded) < MaxRecords
        /\ visitor' = record_debug(visitor, name, value, pos)
        /\ recorded' = Append(recorded, Call("debug", name, 0, value))
        /\ UNCHANGED <<parseVars, contextVars, renderVars>>

VisitNext ==
    \/ Visit_f64
    \/ Visit_i64
    \/ Visit_u64
    \/ Visit_i128
    \/ Visit_u128
    \/ Visit_bool
    \/ Visit_str
    \/ Visit_error
    \/ Visit_debug

\* Any sequence of record_* calls on one FieldsVisitor.
SpecVisit == VisitInit /\ [][VisitNext]_vars

\* ================================================================= claims

\* ---- C1

\* The textual value of a recorded call, as the claims state it: the decimal
\* form of a number, true/false, the text of a str, the Debug text of a
\* debug or error value.
ClaimText(r) ==
    CASE r.ch = "f64" -> F64ToString(r.n)
      [] r.ch \in {"i64", "i128"} -> IntToString(r.n)
      [] r.ch \in {"u64", "u128"} -> NatToString(r.n)
      [] r.ch = "bool" -> BoolToString(r.n = 1)
      [] r.ch \in {"str", "debug", "error"} -> r.s

\* The calls of the history made for the field named k.
RecordedUnder(k) == SelectSeq(recorded, LAMBDA r : r.name = k)

\* C1: after any sequence of record_* calls, the message slot holds the text
\* of the first field named "message", and the later fields named "message"
\* are ignored: `values` never has the key "message".
C1_MessageOnlyFirst ==
    /\ RecordedUnder("message") # <<>>
         => visitor.message = Some(ClaimText(RecordedUnder("message")[1]))
    /\ RecordedUnder("message") = <<>> => visitor.message = None
    /\ "message" \notin DOMAIN visitor.values

\* ---- render steps, as the claims speak of them

\* Thread t runs one iteration of render's loop over the items.
ItemStep(t) == pc[t] = "render" /\ call'[t].idx = call[t].idx + 1

\* The item that iteration is about.
ItemAt(t) == ItemsOf(t)[call[t].idx]

\* A string property of a placeholder, empty when it is absent or no string.
ClaimString(ph, name) ==
    IF name \in DOMAIN ph.properties /\ ph.properties[name].kind = "String"
    THEN ph.properties[name].s
    ELSE <<>>

\* ---- C2

\* The value the claim gives a Span placeholder whose span resolved to sp.
ClaimSpanValue(ph, sp) ==
    IF flag(ph, "args") /\ spans[sp].ext.some /\ has_values(spans[sp].ext.v)
    THEN SpanName(sp) \o ClaimString(ph, "args_prefix")
                      \o format_values(spans[sp].ext.v)
                      \o ClaimString(ph, "args_suffix")
    ELSE SpanName(sp)

\* C2: a Span placeholder whose span resolves renders the span's name
\* followed by args_prefix, format_values() and args_suffix exactly when the
\* args flag is set and the span's stored FieldsVisitor has at least one
\* value, and in every other case the bare name.
C2_SpanArgsOnlyWithValues ==
    [][\A t \in Threads :
          (/\ ItemStep(t)
           /\ ItemAt(t).kind = "Placeholder"
           /\ ItemAt(t).ph.ty = "Span"
           /\ parent_span(t, EventOf(t)).some)
          => inner'[t] = Some(ClaimSpanValue(ItemAt(t).ph, parent_span(t, EventOf(t)).v))]_vars

\* ---- C3

\* C3: a call of render never fails: it ends by returning its string, never
\* with a panic or with the process aborted, also when it is made while
\* another call is in progress on the thread.
C3_RenderNeverFails == \A t \in Threads : outcome[t].kind \notin {"panicked", "aborted"}

\* ---- C4

\* The padding the claim gives a value of length n under width w.
ClaimFill(w, n) == Spaces(IF w - n > 0 THEN w - n ELSE 0)

\* The emitted value the claim gives the produced value v.
ClaimEmitted(ph, v) ==
    IF "width" \in DOMAIN ph.properties /\ ph.properties["width"].kind = "Integer"
    THEN LET w == ph.properties["width"].n
         IN  IF ClaimString(ph, "alignment") = <<"<">> THEN v \o ClaimFill(w, Len(v))
             ELSE IF ClaimString(ph, "alignment") = <<">">> THEN ClaimFill(w, Len(v)) \o v
             ELSE v
    ELSE v

\* C4: a placeholder that produced the value v emits, between its prefix and
\* its suffix, v followed by max(0, width - len(v)) spaces under alignment
\* '<', the spaces followed by v under '>', and v itself when width is absent
\* or no Integer or the alignment is not '<' or '>', for every i32 width.
C4_WidthPadsNeverTruncates ==
    [][\A t \in Threads :
          (ItemStep(t) /\ ItemAt(t).kind = "Placeholder" /\ inner'[t].some)
          => BUF'[t] = BUF[t] \o ClaimString(ItemAt(t).ph, "prefix")
                              \o ClaimEmitted(ItemAt(t).ph, inner'[t].v)
                              \o ClaimString(ItemAt(t).ph, "suffix")]_vars

\* ---- C5

\* The widest padding of the model's patterns.
MaxFill == 5

\* v with spaces at one of its sides, or none.
ClaimPossiblyPadded(v) ==
    {v \o Spaces(k) : k \in 0..MaxFill} \cup {Spaces(k) \o v : k \in 0..MaxFill}

\* C5: a placeholder that resolves to no value appends nothing; one that
\* resolves to a value appends its prefix, the possibly padded value and its
\* suffix, in that order; a Text item is copied; and the output of a call is
\* the concatenation of these contributions, in order.
C5_OutputIsConcatenation ==
    [][\A t \in Threads :
          /\ (pc[t] = "idle" /\ pc'[t] = "render") => BUF[t] = <<>>
          /\ (ItemStep(t) /\ ItemAt(t).kind = "Text") => BUF'[t] = BUF[t] \o ItemAt(t).text
          /\ (ItemStep(t) /\ ItemAt(t).kind = "Placeholder" /\ ~inner'[t].some)
                => BUF'[t] = BUF[t]
          /\ (ItemStep(t) /\ ItemAt(t).kind = "Placeholder" /\ inner'[t].some)
                => \E padded \in ClaimPossiblyPadded(inner'[t].v) :
                       BUF'[t] = BUF[t] \o ClaimString(ItemAt(t).ph, "prefix") \o padded
                                        \o ClaimString(ItemAt(t).ph, "suffix")
          /\ outcome'[t].kind = "returned" /\ outcome[t].kind # "returned"
                => outcome'[t].out = BUF[t]]_vars

\* ---- C6

\* The Pattern of index p has a DateTime placeholder.
HasDateTime(p) ==
    \E i \in 1..Len(Patterns[p].items) :
        Patterns[p].items[i].kind = "Placeholder" /\ Patterns[p].items[i].ph.ty = "DateTime"

\* C6: two render calls with the same Pattern, the same event and the same
\* span state return the same string, for every pattern without a DateTime
\* placeholder and with the same Span resolution in both calls.
C6_RenderIdempotent ==
    \A t, u \in Threads :
        (/\ outcome[t].kind = "returned"
         /\ outcome[u].kind = "returned"
         /\ call[t].pattern = call[u].pattern
         /\ call[t].event = call[u].event
         /\ ~HasDateTime(call[t].pattern)
         /\ parent_span(t, EventOf(t)) = parent_span(u, EventOf(u)))
        => outcome[t].out = outcome[u].out

\* ---- C7

RECURSIVE AloneBuffers(_, _, _, _)
\* What the buffer of thread t can hold after the call's iterations over
\* `items`, when the call that began with the buffer at buf runs with no
\* other thread taking a step.
AloneBuffers(t, buf, items, e) ==
    IF items = <<>> THEN {buf}
    ELSE UNION { IF r.status = "ok"
                 THEN {buf \o r.text \o rest : rest \in AloneBuffers(t, <<>>, Tail(items), e)}
                 ELSE {}
                 : r \in ItemResults(t, TRUE, Head(items), e) }

\* C7: under every interleaving of the threads' render calls on the shared
\* Pattern, a call holds and returns what it would when run alone: at every
\* point of a call the thread's buffer is the one of the call run alone up
\* to that item, and the string it returns is the one of the call run alone.
C7_CallsRunAsAlone ==
    \A t \in Threads :
        /\ pc[t] = "render"
             => BUF[t] \in AloneBuffers(t, entry[t],
                                        SubSeq(ItemsOf(t), 1, call[t].idx - 1), EventOf(t))
        /\ outcome[t].kind = "returned"
             => outcome[t].out \in AloneBuffers(t, entry[t], ItemsOf(t), EventOf(t))

\* C7's case: both threads are inside a render call of the shared Pattern,
\* each past its first item, on different events.
C7_Witness ==
    /\ pc["t1"] = "render" /\ pc["t2"] = "render"
    /\ call["t1"].idx = 2 /\ call["t2"].idx = 3
    /\ call["t1"].event # call["t2"].event
    /\ BUF["t1"] # <<>> /\ BUF["t2"] # <<>> /\ BUF["t1"] # BUF["t2"]

\* ---- C8

\* C8: the thread-local buffer is empty whenever no render call is in
\* progress on the thread, however the earlier calls ended, so a call's
\* string holds no residue of an earlier call.
C8_BufferEmptyBetweenCalls ==
    \A t \in Threads : pc[t] = "idle" => BUF[t] = <<>> /\ entry[t] = <<>>

\* ---- C9

\* A type name is recognised when it equals, compared case-insensitively,
\* one of the nine names.
ClaimRecognised(name) ==
    \E ty \in PlaceholderTypes :
        /\ Len(name) = Len(TypeSpelling(ty))
        /\ \A i \in 1..Len(name) : CharToLower(name[i]) = CharToLower(TypeSpelling(ty)[i])

ClaimKept(item) == item.kind = "Text" \/ ClaimRecognised(item.name)

\* The args of a parsed placeholder (none when it has no parentheses).
ArgsOf(item) == IF item.args.some THEN item.args.v ELSE <<>>

\* The value a property name has in args: that of its last occurrence.
LastValue(args, name) ==
    LET i == CHOOSE i \in 1..Len(args) :
                 /\ args[i].kind = "Value" /\ args[i].name = name
                 /\ \A j \in (i + 1)..Len(args) :
                        ~(args[j].kind = "Value" /\ args[j].name = name)
    IN  args[i].value

\* A kept parsed item and the PatternItem it became agree: the same text, or
\* the placeholder of that type with the item's properties and flags.
ClaimSameItem(item, out) ==
    IF item.kind = "Text" THEN out = TextItem(item.text)
    ELSE /\ out.kind = "Placeholder"
         /\ out.ph.ty \in PlaceholderTypes
         /\ TypeSpelling(out.ph.ty) = [i \in 1..Len(item.name) |-> CharToLower(item.name[i])]
         /\ out.ph.flags = LET f == SelectSeq(ArgsOf(item), LAMBDA a : a.kind = "Flag")
                           IN  [i \in 1..Len(f) |-> f[i].name]
         /\ DOMAIN out.ph.properties =
                {ArgsOf(item)[i].name : i \in {j \in 1..Len(ArgsOf(item)) :
                                                   ArgsOf(item)[j].kind = "Value"}}
         /\ \A k \in DOMAIN out.ph.properties :
                LET v == LastValue(ArgsOf(item), k)
                IN  /\ out.ph.properties[k].kind = v.variant
                    /\ out.ph.properties[k].n = v.n
                    /\ out.ph.properties[k].s = v.s

\* C9: try_parse on a valid template succeeds, and its Pattern is the parsed
\* item sequence, in order, with exactly the placeholders of an unknown type
\* name (compared case-insensitively) removed.
C9_UnknownTypesDropped ==
    parsed.some =>
        LET kept == SelectSeq(template, ClaimKept)
            out == parsed.v.v.items
        IN  /\ parsed.v.ok
            /\ Len(out) = Len(kept)
            /\ \A i \in 1..Len(kept) : ClaimSameItem(kept[i], out[i])

\* C9's case: a template of an unknown placeholder and a recognised one
\* written in upper case was parsed to the recognised one alone.
C9_Witness ==
    /\ parsed.some
    /\ Len(template) = 2
    /\ template[1].name = <<"b", "o", "g", "u", "s">>
    /\ template[2].name = <<"L", "E", "V", "E", "L">>
    /\ Len(parsed.v.v.items) = 1
    /\ parsed.v.v.items[1].ph.ty = "Level"
    /\ parsed.v.v.items[1].ph.properties["width"] = PInteger(5)

\* ---- C10

\* The EventValue the claims name for a recorded call: the variant of the
\* channel, debug and error values as the String variant.
ClaimValue(r) ==
    CASE r.ch = "f64" -> EventValue("F64", r.n, <<>>)
      [] r.ch = "i64" -> EventValue("I64", r.n, <<>>)
      [] r.ch = "u64" -> EventValue("U64", r.n, <<>>)
      [] r.ch = "i128" -> EventValue("I128", r.n, <<>>)
      [] r.ch = "u128" -> EventValue("U128", r.n, <<>>)
      [] r.ch = "bool" -> EventValue("Bool", r.n, <<>>)
      [] r.ch \in {"str", "debug", "error"} -> EventValue("String", 0, r.s)

\* A value as the claims render it: a String in backticks, others bare.
ClaimShown(ev) ==
    IF ev.kind = "String" THEN <<Backtick>> \o ev.s \o <<Backtick>>
    ELSE CASE ev.kind = "F64" -> F64ToString(ev.n)
           [] ev.kind = "Bool" -> BoolToString(ev.n = 1)
           [] OTHER -> IntToString(ev.n)

\* A key as the claims render it: k=[v1,v2,...] for two or more values, k=v
\* for one.
ClaimEntry(k, vals) ==
    IF Len(vals) >= 2
    THEN NameChars(k) \o <<"=", "[">>
         \o Join([i \in 1..Len(vals) |-> ClaimShown(vals[i])], <<",">>) \o <<"]">>
    ELSE NameChars(k) \o <<"=">> \o ClaimShown(vals[1])

\* C10: values[k], for every field name k other than "message", is the list
\* of the values recorded under k, one per recording, in recording order;
\* format_values is the comma-joined list of the keys' entries, k=[v1,v2,...]
\* in recorded order for a key of two or more values and k=v for one, with
\* String values in backticks.
C10_ValuesKeepOrder ==
    /\ \A k \in FieldNames \ {"message"} :
           LET recs == RecordedUnder(k)
           IN  IF recs = <<>> THEN k \notin DOMAIN visitor.values
               ELSE /\ k \in DOMAIN visitor.values
                    /\ visitor.values[k] = [i \in 1..Len(recs) |-> ClaimValue(recs[i])]
    /\ \E keys \in [1..Cardinality(DOMAIN visitor.values) -> DOMAIN visitor.values] :
           /\ \A k \in DOMAIN visitor.values : \E i \in DOMAIN keys : keys[i] = k
           /\ format_values(visitor) =
                  Join([i \in DOMAIN keys |-> ClaimEntry(keys[i], visitor.values[keys[i]])],
                       <<",">>)

\* C10's case: x was recorded as 1, then 2, then y as a str, and
\* format_values shows x=[1,2] and the str in backticks.
C10_Witness ==
    /\ RecordedUnder("x") = <<Call("i64", "x", 1, <<>>), Call("i64", "x", 2, <<>>)>>
    /\ RecordedUnder("y") = <<Call("str", "y", 0, <<"t">>)>>
    /\ format_values(visitor) =
           <<"x", "=", "[", "1", ",", "2", "]", ",", "y", "=", Backtick, "t", Backtick>>

\* ---- C11

\* The span the claim resolves for event e on thread t: the declared parent
\* when the event declares one (no span when the registry no longer has
\* it), the thread's active span only when the event declares none.
ClaimResolved(t, e) ==
    IF e.parent.kind = "Explicit"
    THEN IF spans[e.parent.id].state = "open"
         THEN [some |-> TRUE, v |-> e.parent.id]
         ELSE NoSpanId
    ELSE lookup_current(t)

\* text begins with the name of span sp.
ClaimNamed(text, sp) ==
    /\ Len(text) >= Len(SpanName(sp))
    /\ SubSeq(text, 1, Len(SpanName(sp))) = SpanName(sp)

\* C11: a Span placeholder renders the name of the event's declared parent
\* when the event declares one, the name of the thread's active span only
\* when the event declares no parent, and no value when no span resolves;
\* for an event with a declared parent it never renders the name of another
\* span.
C11_SpanIsDeclaredParent ==
    [][\A t \in Threads :
          (/\ ItemStep(t)
           /\ ItemAt(t).kind = "Placeholder"
           /\ ItemAt(t).ph.ty = "Span")
          => LET sp == ClaimResolved(t, EventOf(t))
             IN  /\ inner'[t].some = sp.some
                 /\ sp.some => ClaimNamed(inner'[t].v, sp.v)
                 /\ (EventOf(t).parent.kind = "Explicit" /\ inner'[t].some)
                      => ClaimNamed(inner'[t].v, EventOf(t).parent.id)]_vars

\* ---- C12

\* The slot of span s as the claim has it: one FieldsVisitor of the
\* creation attributes until the first on_exit, nothing from then on.
ClaimSlot(s) ==
    IF spans[s].exited
    THEN ~spans[s].ext.some
    ELSE /\ spans[s].ext.some
         /\ spans[s].ext.v \in Visitors(spans[s].attrs)

\* What `$span(args)` shows for span s before its first exit: the name and,
\* between args_prefix and args_suffix, the creation attributes.
ClaimWithAttrs(ph, s) ==
    { SpanName(s) \o ClaimString(ph, "args_prefix") \o format_values(fv)
                  \o ClaimString(ph, "args_suffix") : fv \in Visitors(spans[s].attrs) }

\* A step of a render call (on_event) of some thread.
ClaimRenderStep == \E t \in Threads : pc[t] = "render" \/ pc'[t] = "render"

\* C12: under any sequence of on_new_span, enter, on_exit, re-enter and
\* on_event for a span s, the slot of s holds one FieldsVisitor of s's
\* creation attributes from on_new_span until the first on_exit and is
\* empty from then on, also after s is entered again; on_event and render
\* leave it unchanged; `$span(args)` for an event that resolves to s shows
\* the creation attributes before the first exit and the bare name after.
C12_SlotLivesUntilFirstExit ==
    /\ [](\A s \in SpanIds : spans[s].state = "open" => ClaimSlot(s))
    /\ [][ /\ ClaimRenderStep => spans' = spans
           /\ \A s \in SpanIds :
                 (spans[s].state = "open" /\ ~spans[s].ext.some) => ~spans'[s].ext.some
           /\ \A t \in Threads :
                 (/\ ItemStep(t)
                  /\ ItemAt(t).kind = "Placeholder"
                  /\ ItemAt(t).ph.ty = "Span"
                  /\ flag(ItemAt(t).ph, "args")
                  /\ parent_span(t, EventOf(t)).some)
                 => LET s == parent_span(t, EventOf(t)).v
                    IN  /\ spans[s].exited => inner'[t] = Some(SpanName(s))
                        /\ (~spans[s].exited /\ spans[s].attrs # <<>>)
                             => /\ inner'[t].some
                                /\ inner'[t].v \in ClaimWithAttrs(ItemAt(t).ph, s)
                                /\ inner'[t].v # SpanName(s) ]_vars

\* A thread inside a span that it left once and entered again has rendered
\* `$span(args)` for an event resolving to that span, which was created with
\* attributes: the bare name.
C12_Witness ==
    \E t \in Threads :
        /\ pc[t] = "render"
        /\ call[t].idx > 1
        /\ ItemsOf(t)[call[t].idx - 1].kind = "Placeholder"
        /\ ItemsOf(t)[call[t].idx - 1].ph.ty = "Span"
        /\ flag(ItemsOf(t)[call[t].idx - 1].ph, "args")
        /\ parent_span(t, EventOf(t)).some
        /\ LET s == parent_span(t, EventOf(t)).v
           IN  /\ spans[s].exited
               /\ spans[s].attrs # <<>>
               /\ stack[t] # <<>>
               /\ stack[t][Len(stack[t])] = s
               /\ inner[t] = Some(SpanName(s))
====
